---------------------------- MODULE Spec2Model ----------------------------
(***************************************************************************)
(* Experience replay of the TD3 trainer (spinup/algos/pytorch/td3):        *)
(* calculate_nstep_returns, MultiStepIntermediateBuffer, ReplayBuffer and  *)
(* MultiStepReplayBuffer of replay_buffers.py, as state machines.          *)
(*                                                                         *)
(* Representation.  Observations and actions are opaque non-zero labels    *)
(* (the arrays start as zeros, so a label tells a written slot from an     *)
(* unwritten one).  Rewards and returns are exact rationals: a buffer      *)
(* whose step count is n and whose discount is gamma = <<num, den>> holds  *)
(* them as integers over the common denominator den^(n-1) (FixedOne).      *)
(* float32/float64 rounding is not modelled.  A done flag written into the *)
(* float array done_buf is 1 or 0.  Python lists and numpy arrays owned by *)
(* the accumulator are objects of a heap, named by references, so that     *)
(* aliasing between the accumulator and its caller is visible.             *)
(***************************************************************************)
EXTENDS Integers, Sequences, FiniteSets, TLC

VARIABLES
    rb,        \* the ReplayBuffer (or the ring of a MultiStepReplayBuffer)
    plain,     \* a plain ReplayBuffer fed the same stream as rb
    ib,        \* the MultiStepIntermediateBuffer
    heap,      \* list / array objects: reference -> sequence
    ret,       \* the last call: operation, arguments, outcome
    hist,      \* history: the transitions given to store so far
    written,   \* history: the ring slots some store has written
    pending,   \* history: a flush has happened and was not yet retrieved
    held,      \* history: what the last successful get_trajectory handed out
    seg,       \* history: the steps stored since the last successful get_trajectory
    ncalls,    \* history: the number of calls made so far
    cfg,       \* the arguments of td3(...)
    net,       \* ac, ac_targ, the optimizers' parameter lists, q_params
    loop,      \* the locals of td3's main loop and the position in it
    disk,      \* the snapshot files: slot -> what was saved in it
    env,       \* the environment
    trace      \* history: what the main loop has done so far

bufVars == <<rb, plain, ib, heap, hist, written, pending, held, seg>>

trainVars == <<cfg, net, loop, disk, env, trace>>

vars == <<rb, plain, ib, heap, ret, hist, written, pending, held, seg, ncalls,
          cfg, net, loop, disk, env, trace>>

----------------------------------------------------------------------------
(* Bounds of the model *)

MaxCap == 3
MaxStores == 5
MaxN == 3
MaxLen == 4
MaxCalls == 5
MaxRing == 5
MaxSteps == 5
MaxSampleSteps == 2
MaxDelay == 2
MaxTimer == 3
MaxUpdates == 3
MaxActLimit == 2
MaxNoise == 2
MaxSaved == 2
MaxResets == 3
MaxEpochs == 2

Min(a, b) == IF a <= b THEN a ELSE b

RECURSIVE Pow(_, _)
Pow(b, e) == IF e = 0 THEN 1 ELSE b * Pow(b, e - 1)

SeqsUpTo(S, k) == UNION {[1..m -> S] : m \in 0..k}

\* The unused value of a variable a specification does not touch.
None == [op |-> "none"]

\* Nothing of the training loop exists
TrainIdle ==
    /\ cfg = None
    /\ net = None
    /\ loop = None
    /\ disk = None
    /\ env = None
    /\ trace = None

NoCall == [op |-> "none", ok |-> TRUE, err |-> "", args |-> <<>>, val |-> <<>>]

Call(op, args, val) ==
    [op |-> op, ok |-> TRUE, err |-> "", args |-> args, val |-> val]

Raise(op, args, err) ==
    [op |-> op, ok |-> FALSE, err |-> err, args |-> args, val |-> <<>>]

\* numpy stores a bool in a float array as 1.0 or 0.0
Float(done) == IF done THEN 1 ELSE 0

----------------------------------------------------------------------------
(* class ReplayBuffer *)

ReplayBuffer_init(size) ==
    [obs_buf  |-> [i \in 0..(size - 1) |-> 0],
     obs2_buf |-> [i \in 0..(size - 1) |-> 0],
     act_buf  |-> [i \in 0..(size - 1) |-> 0],
     rew_buf  |-> [i \in 0..(size - 1) |-> 0],
     done_buf |-> [i \in 0..(size - 1) |-> 0],
     ptr |-> 0, size |-> 0, max_size |-> size]

ReplayBuffer_store_no_wrap(self, obs, act, rew, next_obs, done) ==
    [self EXCEPT !.obs_buf[self.ptr]  = obs,
                 !.obs2_buf[self.ptr] = next_obs,
                 !.act_buf[self.ptr]  = act,
                 !.rew_buf[self.ptr]  = rew,
                 !.done_buf[self.ptr] = Float(done),
                 !.ptr  = Min(self.ptr + 1, self.max_size - 1),
                 !.size = Min(self.size + 1, self.max_size)]

ReplayBuffer_store_stale_next_obs(self, obs, act, rew, next_obs, done) ==
    [self EXCEPT !.obs_buf[self.ptr]  = obs,
                 !.act_buf[self.ptr]  = act,
                 !.rew_buf[self.ptr]  = rew,
                 !.done_buf[self.ptr] = Float(done),
                 !.ptr  = (self.ptr + 1) % self.max_size,
                 !.size = Min(self.size + 1, self.max_size)]

ReplayBuffer_store(self, obs, act, rew, next_obs, done) ==
    [self EXCEPT !.obs_buf[self.ptr]  = obs,
                 !.obs2_buf[self.ptr] = next_obs,
                 !.act_buf[self.ptr]  = act,
                 !.rew_buf[self.ptr]  = rew,
                 !.done_buf[self.ptr] = Float(done),
                 !.ptr  = (self.ptr + 1) % self.max_size,
                 !.size = Min(self.size + 1, self.max_size)]

\* np.random.randint(low, high, size): the index vectors it can draw
randint(low, high, size) == [1..size -> low..(high - 1)]

sample_idxs_whole_array(self, batch_size) == randint(0, self.max_size, batch_size)

\* "high" guarded as max(self.size, 1)
sample_idxs_at_least_one(self, batch_size) ==
    randint(0, IF self.size > 1 THEN self.size ELSE 1, batch_size)

sample_idxs(self, batch_size) == randint(0, self.size, batch_size)

\* the batch dict: the five arrays indexed by idxs
batch_of(self, idxs) ==
    [obs  |-> [j \in DOMAIN idxs |-> self.obs_buf[idxs[j]]],
     obs2 |-> [j \in DOMAIN idxs |-> self.obs2_buf[idxs[j]]],
     act  |-> [j \in DOMAIN idxs |-> self.act_buf[idxs[j]]],
     rew  |-> [j \in DOMAIN idxs |-> self.rew_buf[idxs[j]]],
     done |-> [j \in DOMAIN idxs |-> self.done_buf[idxs[j]]]]

\* lines 78-84: the outcomes of sample_batch.  randint raises ValueError
\* ("low >= high") exactly when there is no index to draw.
ReplayBuffer_sample_batch(self, batch_size) ==
    IF sample_idxs(self, batch_size) = {}
    THEN {Raise("sample_batch", <<batch_size>>, "ValueError")}
    ELSE {Call("sample_batch", <<batch_size>>,
               [idxs |-> idxs, batch |-> batch_of(self, idxs)]) :
             idxs \in sample_idxs(self, batch_size)}

----------------------------------------------------------------------------
(* Specification SpecRB: a ReplayBuffer under any sequence of store and    *)
(* sample_batch calls.                                                     *)

\* The batch sizes a caller asks for
BatchSizes == {1, 2}

\* The transitions a caller stores: every field of a transition differs from
\* the same field of the others and from the initial zero.
Transitions ==
    {[obs |-> 1, act |-> 11, rew |-> 21, next_obs |-> 2, done |-> FALSE],
     [obs |-> 2, act |-> 12, rew |-> 22, next_obs |-> 3, done |-> TRUE],
     [obs |-> 3, act |-> 13, rew |-> 23, next_obs |-> 1, done |-> FALSE]}

Slot(self, i) ==
    [obs |-> self.obs_buf[i], act |-> self.act_buf[i], rew |-> self.rew_buf[i],
     next_obs |-> self.obs2_buf[i], done |-> self.done_buf[i]]

Stored(tr) == [tr EXCEPT !.done = Float(tr.done)]

RBInit ==
    /\ \E size \in 1..MaxCap : rb = ReplayBuffer_init(size)
    /\ plain = None
    /\ ib = None
    /\ heap = <<>>
    /\ ret = NoCall
    /\ hist = <<>>
    /\ written = {}
    /\ pending = FALSE
    /\ held = None
    /\ seg = <<>>
    /\ ncalls = 0
    /\ TrainIdle

RBStore ==
    /\ Len(hist) < MaxStores
    /\ \E tr \in Transitions :
        /\ rb' = ReplayBuffer_store(rb, tr.obs, tr.act, tr.rew, tr.next_obs, tr.done)
        /\ ret' = Call("store", <<tr>>, <<>>)
        /\ hist' = Append(hist, tr)
    /\ written' = written \cup {rb.ptr}
    /\ UNCHANGED <<plain, ib, heap, pending, held, seg, ncalls, trainVars>>

RBSample ==
    /\ \E batch_size \in BatchSizes :
        \E out \in ReplayBuffer_sample_batch(rb, batch_size) : ret' = out
    /\ UNCHANGED <<rb, plain, ib, heap, hist, written, pending, held, seg, ncalls, trainVars>>

RBNext == RBStore \/ RBSample

SpecRB == RBInit /\ [][RBNext]_vars

----------------------------------------------------------------------------
(* Claims on ReplayBuffer *)

\* C1: after k stores on a buffer of capacity C, size = min(k, C) and
\* ptr = k mod C; so 0 <= ptr < C and 0 <= size <= C in every state.
C1_SizeAndCursor ==
    /\ rb.size = Min(Len(hist), rb.max_size)
    /\ rb.ptr = Len(hist) % rb.max_size
    /\ 0 <= rb.ptr /\ rb.ptr < rb.max_size
    /\ 0 <= rb.size /\ rb.size <= rb.max_size

C1_Witness ==
    /\ Len(hist) > rb.max_size
    /\ rb.max_size > 1
    /\ rb.ptr > 0
    /\ rb.size = rb.max_size

\* C2: after k stores the occupied slots are exactly the slots 0..min(k,C)-1,
\* and they hold the last min(k, C) transitions stored, the j-th store
\* (counted from 0) in slot j mod C with all five of its fields; every
\* other slot is still zero.  So a store into a full buffer replaced the
\* oldest transition held and nothing else.
C2_FifoByContent ==
    LET k == Len(hist)
        C == rb.max_size
    IN  /\ \A j \in 0..(k - 1) :
              j >= k - C => Slot(rb, j % C) = Stored(hist[j + 1])
        /\ \A i \in 0..(C - 1) :
              i >= k => Slot(rb, i) = Slot(ReplayBuffer_init(C), i)

C2_Witness ==
    /\ Len(hist) > rb.max_size
    /\ rb.max_size > 1
    /\ hist[1] # hist[rb.max_size + 1]
    /\ Slot(rb, 0) = Stored(hist[rb.max_size + 1])

\* C3: an index drawn by sample_batch is in [0, size) and names a slot some
\* store has written, so every row of the batch is a transition that was
\* stored, and the call leaves arrays, ptr and size as they were.
C3_SampleInRange ==
    [][ret'.op = "sample_batch" =>
          /\ rb' = rb
          /\ ret'.ok =>
               /\ \A j \in DOMAIN ret'.val.idxs :
                     /\ 0 <= ret'.val.idxs[j] /\ ret'.val.idxs[j] < rb.size
                     /\ ret'.val.idxs[j] \in written
               /\ \A j \in DOMAIN ret'.val.idxs :
                     [obs |-> ret'.val.batch.obs[j], act |-> ret'.val.batch.act[j],
                      rew |-> ret'.val.batch.rew[j], next_obs |-> ret'.val.batch.obs2[j],
                      done |-> ret'.val.batch.done[j]]
                        \in {Stored(hist[k]) : k \in 1..Len(hist)}]_vars

C3_Witness ==
    /\ ret.op = "sample_batch"
    /\ ret.ok
    /\ rb.size > 0
    /\ rb.size < rb.max_size
    /\ Len(ret.val.idxs) = 2
    /\ ret.val.idxs[1] # ret.val.idxs[2]

----------------------------------------------------------------------------
(* calculate_nstep_returns *)

\* The discounts tried, as <<numerator, denominator>>: 0.5 and 0.9
Gammas == {<<1, 2>>, <<9, 10>>}

\* The rewards a step can carry
Rewards == {-1, 0, 2}

\* 1.0 in the fixed-point form of a buffer with step count n and discount gamma
FixedOne(n, gamma) == Pow(gamma[2], n - 1)

\* np.roll(a, -1, 0): every element moves one place to the front, the first
\* one comes round to the end
roll(a) == [i \in 1..Len(a) |-> a[(i % Len(a)) + 1]]

\* lines 15-19: one pass of the loop body per remaining iteration
RECURSIVE nstep_loop_no_zero(_, _, _, _)
nstep_loop_no_zero(returns, reward, iters, gamma) ==
    IF iters <= 0 THEN returns
    ELSE LET rolled == roll(reward)
             scaled == [i \in 1..Len(rolled) |-> (rolled[i] * gamma[1]) \div gamma[2]]
         IN  nstep_loop_no_zero([i \in 1..Len(returns) |-> returns[i] + scaled[i]],
                                scaled, iters - 1, gamma)

RECURSIVE nstep_loop(_, _, _, _)
nstep_loop(returns, reward, iters, gamma) ==
    IF iters <= 0 THEN returns
    ELSE LET rolled == roll(reward)
             zeroed == [rolled EXCEPT ![Len(rolled)] = 0]
             scaled == [i \in 1..Len(zeroed) |-> (zeroed[i] * gamma[1]) \div gamma[2]]
         IN  nstep_loop([i \in 1..Len(returns) |-> returns[i] + scaled[i]],
                        scaled, iters - 1, gamma)

calculate_nstep_returns(rewards, n, gamma) ==
    LET returns == [i \in 1..Len(rewards) |-> rewards[i] * FixedOne(n, gamma)]
    IN  nstep_loop(returns, returns, n - 1, gamma)

----------------------------------------------------------------------------
(* Specification SpecNStep: calculate_nstep_returns applied to the rewards *)
(* of an episode of 1..MaxLen steps, for n in 1..MaxN.                     *)

NStepInit ==
    /\ rb = None
    /\ plain = None
    /\ ib = None
    /\ heap = <<>>
    /\ \E rewards \in SeqsUpTo(Rewards, MaxLen), n \in 1..MaxN, gamma \in Gammas :
        /\ Len(rewards) >= 1
        /\ ret = Call("input", <<rewards, n, gamma>>, <<>>)
    /\ hist = <<>>
    /\ written = {}
    /\ pending = FALSE
    /\ held = None
    /\ seg = <<>>
    /\ ncalls = 0
    /\ TrainIdle

NStepCall ==
    /\ ret.op = "input"
    /\ ret' = Call("calculate_nstep_returns", ret.args,
                   calculate_nstep_returns(ret.args[1], ret.args[2], ret.args[3]))
    /\ UNCHANGED <<rb, plain, ib, heap, hist, written, pending, held, seg, ncalls, trainVars>>

NStepNext == NStepCall

SpecNStep == NStepInit /\ [][NStepNext]_vars

\* sum over k in 0..n-1 of gamma^k * rewards[i+k], rewards past the end
\* counting as zero, as an integer over the denominator den^(n-1)
RECURSIVE DiscountedSum(_, _, _, _, _)
DiscountedSum(rewards, i, k, n, gamma) ==
    IF k >= n THEN 0
    ELSE (IF i + k <= Len(rewards)
          THEN Pow(gamma[1], k) * Pow(gamma[2], n - 1 - k) * rewards[i + k]
          ELSE 0)
         + DiscountedSum(rewards, i, k + 1, n, gamma)

\* C4: calculate_nstep_returns gives, at every position i of the episode,
\* R_i = sum_{k<n} gamma^k * reward_{i+k} with rewards past the end as zero.
C4_NStepReturns ==
    ret.op = "calculate_nstep_returns" =>
        LET rewards == ret.args[1]
            n == ret.args[2]
            gamma == ret.args[3]
        IN  /\ Len(ret.val) = Len(rewards)
            /\ \A i \in 1..Len(rewards) :
                  ret.val[i] = DiscountedSum(rewards, i, 0, n, gamma)

\* rewards [2, -1, 2], n = 2, gamma = 0.5: [2 - 0.5, -1 + 1, 2] = [1.5, 0, 2],
\* held over the denominator 2
C4_Witness ==
    /\ ret.op = "calculate_nstep_returns"
    /\ ret.args = <<(<<2, -1, 2>>), 2, (<<1, 2>>)>>
    /\ ret.val = <<3, 0, 4>>

----------------------------------------------------------------------------
(* class MultiStepIntermediateBuffer.  Its methods act on the accumulator  *)
(* and the heap together: w = [ib |-> fields, heap |-> objects].           *)
(* ready_to_reset and full are the fields _ready_to_reset and _full.       *)
(* has_reset tells whether reset() has run, that is whether the fields it  *)
(* creates (obs_buf, act_buf, rew_buf, done_buf, _full) exist; a reference *)
(* of 0 is a field that does not exist yet.                                *)

MultiStepIntermediateBuffer_init(n, gamma) ==
    [n |-> n, gamma |-> gamma, ready_to_reset |-> TRUE, has_reset |-> FALSE,
     obs_buf |-> 0, act_buf |-> 0, rew_buf |-> 0, done_buf |-> 0,
     full |-> FALSE, n_step_returns |-> 0]

\* a new object with the given content: its reference is Len(heap) + 1
New(h, content) == Append(h, content)

\* list.append(x) on the object ref: in place
ListAppend(h, ref, x) == [h EXCEPT ![ref] = Append(@, x)]

\* reset with "self.obs_buf.clear()" in place of "self.obs_buf = []"
reset_clear_in_place(w) ==
    IF ~w.ib.has_reset
    THEN [ib |-> [w.ib EXCEPT !.has_reset = TRUE,
                              !.obs_buf = Len(w.heap) + 1, !.act_buf = Len(w.heap) + 2,
                              !.rew_buf = Len(w.heap) + 3, !.done_buf = Len(w.heap) + 4,
                              !.full = FALSE],
          heap |-> w.heap \o <<(<<>>), (<<>>), (<<>>), (<<>>)>>]
    ELSE [ib |-> [w.ib EXCEPT !.full = FALSE],
          heap |-> [w.heap EXCEPT ![w.ib.obs_buf] = <<>>, ![w.ib.act_buf] = <<>>,
                                  ![w.ib.rew_buf] = <<>>, ![w.ib.done_buf] = <<>>]]

\* lines 30-34, after the assert: four new empty lists, _full = False
reset(w) ==
    [ib |-> [w.ib EXCEPT !.has_reset = TRUE,
                         !.obs_buf = Len(w.heap) + 1, !.act_buf = Len(w.heap) + 2,
                         !.rew_buf = Len(w.heap) + 3, !.done_buf = Len(w.heap) + 4,
                         !.full = FALSE],
     heap |-> w.heap \o <<(<<>>), (<<>>), (<<>>), (<<>>)>>]

\* lines 37-39 with the reset done on the first store only
store_begin_reset_once(w) ==
    IF w.ib.ready_to_reset /\ ~w.ib.has_reset
    THEN LET r == reset(w) IN [r EXCEPT !.ib.ready_to_reset = FALSE]
    ELSE [w EXCEPT !.ib.ready_to_reset = FALSE]

\* lines 37-39
store_begin(w) ==
    IF w.ib.ready_to_reset
    THEN LET r == reset(w) IN [r EXCEPT !.ib.ready_to_reset = FALSE]
    ELSE w

\* lines 40-43
store_append(w, obs, act, rew, done) ==
    [w EXCEPT !.heap = ListAppend(ListAppend(ListAppend(ListAppend(@,
                            w.ib.obs_buf, obs), w.ib.act_buf, act),
                            w.ib.rew_buf, rew), w.ib.done_buf, done)]

store_flush(w, done) ==
    IF done
    THEN [ib |-> [w.ib EXCEPT !.n_step_returns = Len(w.heap) + 1, !.full = TRUE],
          heap |-> New(w.heap,
                       calculate_nstep_returns(w.heap[w.ib.rew_buf], w.ib.n, w.ib.gamma))]
    ELSE w

\* the accumulator and heap after store(obs, act, rew, next_obs, done);
\* the call returns the _full of the result
MultiStepIntermediateBuffer_store(w, obs, act, rew, next_obs, done) ==
    store_flush(store_append(store_begin(w), obs, act, rew, done), done)

\* line 50: the assert passes (the field _full exists and is true)
get_trajectory_ok(w) == w.ib.has_reset /\ w.ib.full

\* line 50 failing: no field _full before the first reset, else the assert
get_trajectory_error(w) ==
    IF ~w.ib.has_reset THEN "AttributeError" ELSE "AssertionError"

\* line 51
get_trajectory_mark(w) == [w EXCEPT !.ib.ready_to_reset = TRUE]

\* line 52: the references handed to the caller
get_trajectory_value(w) ==
    <<w.ib.obs_buf, w.ib.act_buf, w.ib.n_step_returns, w.ib.done_buf>>

----------------------------------------------------------------------------
(* Specification SpecAcc: a MultiStepIntermediateBuffer under any sequence *)
(* of store, get_trajectory and reset calls, in any order.                 *)

\* The steps a caller stores (with either done flag)
AccSteps ==
    {[obs |-> 1, act |-> 11, rew |-> 2, next_obs |-> 2],
     [obs |-> 2, act |-> 12, rew |-> -1, next_obs |-> 3]}

World == [ib |-> ib, heap |-> heap]

\* the segment the accumulator holds: its four lists side by side
SegmentOf(i, h) ==
    [j \in 1..Len(h[i.obs_buf]) |->
        [obs |-> h[i.obs_buf][j], act |-> h[i.act_buf][j],
         rew |-> h[i.rew_buf][j], done |-> h[i.done_buf][j]]]

Segment == IF ib.has_reset THEN SegmentOf(ib, heap) ELSE <<>>

StepOf(args) == [obs |-> args[1], act |-> args[2], rew |-> args[3], done |-> args[5]]

AccInit ==
    /\ rb = None
    /\ plain = None
    /\ \E n \in 1..MaxN, gamma \in Gammas :
          ib = MultiStepIntermediateBuffer_init(n, gamma)
    /\ heap = <<>>
    /\ ret = NoCall
    /\ hist = <<>>
    /\ written = {}
    /\ pending = FALSE
    /\ held = None
    /\ seg = <<>>
    /\ ncalls = 0
    /\ TrainIdle

AccStore ==
    /\ ncalls < MaxCalls
    /\ \E s \in AccSteps, done \in BOOLEAN :
        LET w == MultiStepIntermediateBuffer_store(World, s.obs, s.act, s.rew,
                                                   s.next_obs, done)
            args == <<s.obs, s.act, s.rew, s.next_obs, done>>
        IN  /\ ib' = w.ib
            /\ heap' = w.heap
            /\ ret' = Call("store", args, w.ib.full)
            /\ seg' = Append(seg, StepOf(args))
            /\ pending' = (pending \/ done)
    /\ held' = IF held.op = "held" THEN [held EXCEPT !.since = @ + 1] ELSE held
    /\ ncalls' = ncalls + 1
    /\ UNCHANGED <<rb, plain, hist, written, trainVars>>

AccGet ==
    /\ ncalls < MaxCalls
    /\ IF get_trajectory_ok(World)
       THEN LET w == get_trajectory_mark(World)
                refs == get_trajectory_value(World)
            IN  /\ ib' = w.ib
                /\ heap' = w.heap
                /\ ret' = Call("get_trajectory", <<>>, refs)
                /\ held' = [op |-> "held", refs |-> refs, since |-> 0,
                            snap |-> [k \in 1..4 |-> heap[refs[k]]]]
                /\ seg' = <<>>
                /\ pending' = FALSE
       ELSE /\ ret' = Raise("get_trajectory", <<>>, get_trajectory_error(World))
            /\ UNCHANGED <<ib, heap, held, seg, pending>>
    /\ ncalls' = ncalls + 1
    /\ UNCHANGED <<rb, plain, hist, written, trainVars>>

AccReset ==
    /\ ncalls < MaxCalls
    /\ IF ib.ready_to_reset
       THEN LET w == reset(World)
            IN  /\ ib' = w.ib
                /\ heap' = w.heap
                /\ ret' = Call("reset", <<>>, <<>>)
       ELSE /\ ret' = Raise("reset", <<>>, "AssertionError")
            /\ UNCHANGED <<ib, heap>>
    /\ ncalls' = ncalls + 1
    /\ UNCHANGED <<rb, plain, hist, written, pending, held, seg, trainVars>>

AccNext == AccStore \/ AccGet \/ AccReset

SpecAcc == AccInit /\ [][AccNext]_vars

----------------------------------------------------------------------------
(* Claims on MultiStepIntermediateBuffer *)

\* C7: when no flushed segment is waiting to be retrieved, store appends
\* exactly its own step to the segment in flight (the steps stored since
\* the last retrieval) and returns true exactly when its done is true.
C7_StoreAppendsAndSignals ==
    [][(ret'.op = "store" /\ ~pending) =>
          /\ ret'.ok
          /\ ret'.val = ret'.args[5]
          /\ Segment' = Append(seg, StepOf(ret'.args))]_vars

C7_Witness ==
    /\ ret.op = "store"
    /\ ret.val = FALSE
    /\ ret.args[5] = FALSE
    /\ held.op = "held"
    /\ held.since = 2
    /\ Len(seg) = 2
    /\ Segment = seg

\* C8 as claimed: get_trajectory called when no flush has happened since the
\* last successful get_trajectory fails and changes nothing.
C8_GetFailsWithoutFlush ==
    [][(ret'.op = "get_trajectory" /\ ~pending) =>
          /\ ~ret'.ok
          /\ ib' = ib /\ heap' = heap]_vars

\* C9 as claimed: store called after a flush and before get_trajectory is
\* rejected and changes neither the flushed segment nor its returns.
C9_StoreAfterFlushRejected ==
    [][(ret'.op = "store" /\ pending) =>
          /\ ~ret'.ok
          /\ ib' = ib /\ heap' = heap]_vars

\* C10: after a successful get_trajectory the first store leaves a segment
\* made of its own step only, and the four sequences handed to the caller
\* keep the content they had when handed out, whatever is called later.
C10_ResetForReuse ==
    /\ held.op = "held" =>
          \A k \in 1..4 : heap[held.refs[k]] = held.snap[k]
    /\ (held.op = "held" /\ held.since = 1 /\ ret.op = "store") =>
          Segment = <<StepOf(ret.args)>>

C10_Witness ==
    /\ held.op = "held"
    /\ held.since = 2
    /\ Len(held.snap[1]) = 2
    /\ ret.op = "store"
    /\ ret.val = TRUE
    /\ Len(Segment) = 2
    /\ Segment[1].obs # held.snap[1][1]

----------------------------------------------------------------------------
(* class MultiStepReplayBuffer(ReplayBuffer).  Its methods act on          *)
(* m = [rb |-> the inherited ring and n, ib |-> intermediate_buffer,       *)
(* heap |-> objects].                                                      *)

MultiStepReplayBuffer_init(size, n, gamma) ==
    [rb |-> [f \in DOMAIN ReplayBuffer_init(size) \cup {"n"} |->
                IF f = "n" THEN n ELSE ReplayBuffer_init(size)[f]],
     ib |-> MultiStepIntermediateBuffer_init(n, gamma),
     heap |-> <<>>]

\* the loop body with "obss[i + self.n - 1]", "dones[i + self.n - 1]"
insert_position_off_by_one(self, i, obss, acts, n_step_returns, dones) ==
    LET inside == i + self.n < Len(obss)
    IN  [self EXCEPT
            !.obs_buf[self.ptr]  = obss[i + 1],
            !.act_buf[self.ptr]  = acts[i + 1],
            !.rew_buf[self.ptr]  = n_step_returns[i + 1],
            !.obs2_buf[self.ptr] = IF inside THEN obss[i + self.n] ELSE obss[i + 1],
            !.done_buf[self.ptr] = IF inside THEN Float(dones[i + self.n]) ELSE Float(TRUE),
            !.ptr  = (self.ptr + 1) % self.max_size,
            !.size = Min(self.size + 1, self.max_size)]

\* lines 102-112, the loop body for position i (from 0); the Python lists
\* are indexed from 0, the sequences here from 1
insert_position(self, i, obss, acts, n_step_returns, dones) ==
    LET inside == i + self.n < Len(obss)
    IN  [self EXCEPT
            !.obs_buf[self.ptr]  = obss[i + 1],
            !.act_buf[self.ptr]  = acts[i + 1],
            !.rew_buf[self.ptr]  = n_step_returns[i + 1],
            !.obs2_buf[self.ptr] = IF inside THEN obss[i + self.n + 1] ELSE obss[i + 1],
            !.done_buf[self.ptr] = IF inside THEN Float(dones[i + self.n + 1]) ELSE Float(TRUE),
            !.ptr  = (self.ptr + 1) % self.max_size,
            !.size = Min(self.size + 1, self.max_size)]

\* line 101: for i, (...) in enumerate(zip(obss, acts, n_step_returns, dones))
RECURSIVE insert_trajectory(_, _, _, _, _, _)
insert_trajectory(self, i, obss, acts, n_step_returns, dones) ==
    IF i >= Len(obss) THEN self
    ELSE insert_trajectory(insert_position(self, i, obss, acts, n_step_returns, dones),
                           i + 1, obss, acts, n_step_returns, dones)

\* store that also writes every non-terminal step to the ring at once
MultiStepReplayBuffer_store_every_step(m, obs, act, rew, next_obs, done) ==
    LET w == MultiStepIntermediateBuffer_store([ib |-> m.ib, heap |-> m.heap],
                                               obs, act, rew, next_obs, done)
    IN  IF w.ib.full
        THEN LET g == get_trajectory_mark(w)
                 t == get_trajectory_value(w)
             IN  [rb |-> insert_trajectory(m.rb, 0, w.heap[t[1]], w.heap[t[2]],
                                           w.heap[t[3]], w.heap[t[4]]),
                  ib |-> g.ib, heap |-> g.heap]
        ELSE [rb |-> ReplayBuffer_store(m.rb, obs, act, rew, next_obs, done),
              ib |-> w.ib, heap |-> w.heap]

\* lines 98-112
MultiStepReplayBuffer_store(m, obs, act, rew, next_obs, done) ==
    LET w == MultiStepIntermediateBuffer_store([ib |-> m.ib, heap |-> m.heap],
                                               obs, act, rew, next_obs, done)
        intermediate_is_full == w.ib.full
    IN  IF intermediate_is_full
        THEN LET g == get_trajectory_mark(w)
                 t == get_trajectory_value(w)
             IN  [rb |-> insert_trajectory(m.rb, 0, w.heap[t[1]], w.heap[t[2]],
                                           w.heap[t[3]], w.heap[t[4]]),
                  ib |-> g.ib, heap |-> g.heap]
        ELSE [rb |-> m.rb, ib |-> w.ib, heap |-> w.heap]

----------------------------------------------------------------------------
(* Specification SpecMS: a MultiStepReplayBuffer and a plain ReplayBuffer  *)
(* of the same capacity, given the same store calls.  The calls come from  *)
(* episodes: a step's next_obs is the obs of the step after it, a step     *)
(* with done = true ends the episode and the next one starts at a new obs. *)

\* The rewards a step of the stream can carry
StreamRewards == {1, 2}

\* The k-th call (from 1) observes 2k-1 after a reset and the next_obs of
\* the call before it otherwise; its next_obs is 2k and its act 100 + k.
StreamObs(h) ==
    IF Len(h) = 0 \/ h[Len(h)].done THEN 2 * Len(h) + 1 ELSE h[Len(h)].next_obs

StreamStep(h, rew, done) ==
    [obs |-> StreamObs(h), act |-> 100 + Len(h) + 1, rew |-> rew,
     next_obs |-> 2 * (Len(h) + 1), done |-> done]

Multi == [rb |-> rb, ib |-> ib, heap |-> heap]

MSInit ==
    /\ \E size \in 1..MaxRing, n \in 1..MaxN, gamma \in Gammas :
        /\ rb = MultiStepReplayBuffer_init(size, n, gamma).rb
        /\ ib = MultiStepReplayBuffer_init(size, n, gamma).ib
        /\ heap = MultiStepReplayBuffer_init(size, n, gamma).heap
        /\ plain = ReplayBuffer_init(size)
    /\ ret = NoCall
    /\ hist = <<>>
    /\ written = {}
    /\ pending = FALSE
    /\ held = None
    /\ seg = <<>>
    /\ ncalls = 0
    /\ TrainIdle

MSStoreUpTo(steps) ==
    /\ Len(hist) < steps
    /\ \E rew \in StreamRewards, done \in BOOLEAN :
        LET s == StreamStep(hist, rew, done)
            m == MultiStepReplayBuffer_store(Multi, s.obs, s.act, s.rew, s.next_obs, s.done)
        IN  /\ rb' = m.rb
            /\ ib' = m.ib
            /\ heap' = m.heap
            /\ plain' = ReplayBuffer_store(plain, s.obs, s.act, s.rew, s.next_obs, s.done)
            /\ ret' = Call("store", <<s.obs, s.act, s.rew, s.next_obs, s.done>>, <<>>)
            /\ hist' = Append(hist, s)
            /\ seg' = IF done THEN <<>> ELSE Append(seg, s)
            /\ written' = IF done
                          THEN written \cup {(rb.ptr + i) % rb.max_size : i \in 0..Len(seg)}
                          ELSE written
    /\ UNCHANGED <<pending, held, ncalls, trainVars>>

MSStore == MSStoreUpTo(MaxSteps)

MSNext == MSStore

SpecMS == MSInit /\ [][MSNext]_vars

----------------------------------------------------------------------------
(* Specification SpecMSSample: the two buffers of SpecMS under store and   *)
(* sample_batch calls in any order (MultiStepReplayBuffer inherits         *)
(* sample_batch).                                                          *)

MSShortStore == MSStoreUpTo(MaxSampleSteps)

MSSample ==
    /\ \E batch_size \in BatchSizes :
        \E out \in ReplayBuffer_sample_batch(rb, batch_size) :
            ret' = [out EXCEPT !.args = <<batch_size, "multi">>]
    /\ UNCHANGED <<rb, plain, ib, heap, hist, written, pending, held, seg, ncalls, trainVars>>

MSSamplePlain ==
    /\ \E batch_size \in BatchSizes :
        \E out \in ReplayBuffer_sample_batch(plain, batch_size) :
            ret' = [out EXCEPT !.args = <<batch_size, "plain">>]
    /\ UNCHANGED <<rb, plain, ib, heap, hist, written, pending, held, seg, ncalls, trainVars>>

MSSampleNext == MSShortStore \/ MSSample \/ MSSamplePlain

SpecMSSample == MSInit /\ [][MSSampleNext]_vars

\* C11: sample_batch on a buffer of size 0 (a new ReplayBuffer, or a
\* MultiStepReplayBuffer no episode of which has been flushed) raises
\* instead of returning a batch, and changes nothing of either buffer.
C11_SampleEmptyRejected ==
    [][ret'.op = "sample_batch" =>
          LET target == IF ret'.args[2] = "plain" THEN plain ELSE rb
          IN  /\ target.size = 0 => (~ret'.ok /\ ret'.err = "ValueError")
              /\ rb' = rb /\ plain' = plain /\ ib' = ib /\ heap' = heap]_vars

\* the multi-step buffer is still empty after two stored steps
C11_Witness ==
    /\ ret.op = "sample_batch"
    /\ ~ret.ok
    /\ ret.args[2] = "multi"
    /\ Len(hist) >= 2
    /\ rb.size = 0
    /\ plain.size >= 2

----------------------------------------------------------------------------
(* Claims on MultiStepReplayBuffer *)

\* the episode a terminal store completes: the steps in flight and its own
Episode == Append(seg, [obs |-> ret'.args[1], act |-> ret'.args[2],
                        rew |-> ret'.args[3], next_obs |-> ret'.args[4],
                        done |-> ret'.args[5]])

EpisodeRewards(ep) == [j \in 1..Len(ep) |-> ep[j].rew]

\* C5: the store of a terminal step of an episode of L steps inserts L
\* transitions in episode order from the cursor on: position i (from 0)
\* goes to slot (ptr + i) mod C with obs_i, act_i and R_i; when i + n < L
\* its next_obs is the obs and its done the done flag recorded at position
\* i + n, and when i + n >= L its done is true.  (A slot written twice in
\* one flush, L > C, keeps the later position.)
C5_FlushInsertsEpisode ==
    [][(ret'.op = "store" /\ ret'.args[5]) =>
          LET ep == Episode
              L == Len(ep)
              C == rb.max_size
              n == rb.n
          IN  /\ rb'.ptr = (rb.ptr + L) % C
              /\ rb'.size = Min(rb.size + L, C)
              /\ \A i \in 0..(L - 1) :
                    i >= L - C =>
                       LET s == Slot(rb', (rb.ptr + i) % C)
                       IN  /\ s.obs = ep[i + 1].obs
                           /\ s.act = ep[i + 1].act
                           /\ s.rew = DiscountedSum(EpisodeRewards(ep), i + 1, 0, n, ib.gamma)
                           /\ i + n < L => /\ s.next_obs = ep[i + n + 1].obs
                                           /\ s.done = Float(ep[i + n + 1].done)
                           /\ i + n >= L => s.done = Float(TRUE)
              /\ \A j \in 0..(C - 1) :
                    (\A i \in 0..(L - 1) : j # (rb.ptr + i) % C) =>
                       Slot(rb', j) = Slot(rb, j)]_vars

\* a 5-step episode with n = 3 in a ring of 5: done flags 0, 1, 1, 1, 1
C5_Witness ==
    /\ ret.op = "store"
    /\ ret.args[5]
    /\ Len(hist) = 5
    /\ \A j \in 1..4 : ~hist[j].done
    /\ rb.n = 3
    /\ rb.max_size = 5
    /\ rb.size = 5
    /\ rb.done_buf = [i \in 0..4 |-> IF i = 0 THEN 0 ELSE 1]
    /\ rb.obs2_buf[0] = hist[4].obs
    /\ rb.obs2_buf[1] = hist[5].obs

\* C6 as claimed: with n = 1, after every completed episode the multi-step
\* buffer and the plain buffer hold the same ptr and size and the same five
\* fields in every occupied slot.
C6_SameAsPlainForN1 ==
    (rb.n = 1 /\ Len(hist) > 0 /\ seg = <<>>) =>
        /\ rb.ptr = plain.ptr
        /\ rb.size = plain.size
        /\ \A i \in 0..(rb.size - 1) : Slot(rb, i) = Slot(plain, i)

\* C22 as claimed: after the flush of an episode of L steps with n >= 2, a
\* transition stored with done = false has as next_obs the obs n steps
\* after its own and as return the n rewards r_i..r_{i+n-1}; a transition
\* stored with done = true has as return the discounted sum of all the
\* remaining rewards r_i..r_{L-1} of the episode.
C22_NoRewardMissing ==
    [][(ret'.op = "store" /\ ret'.args[5] /\ rb.n >= 2) =>
          LET ep == Episode
              L == Len(ep)
              C == rb.max_size
              n == rb.n
              den == ib.gamma[2]
          IN  \A i \in 0..(L - 1) :
                 i >= L - C =>
                    LET s == Slot(rb', (rb.ptr + i) % C)
                    IN  /\ s.done = Float(FALSE) =>
                              /\ i + n < L
                              /\ s.next_obs = ep[i + n + 1].obs
                              /\ s.rew = DiscountedSum(EpisodeRewards(ep), i + 1, 0, n, ib.gamma)
                        /\ s.done = Float(TRUE) =>
                              s.rew * Pow(den, L - i - 1)
                                 = DiscountedSum(EpisodeRewards(ep), i + 1, 0, L - i, ib.gamma)
                                     * Pow(den, n - 1)]_vars

\* C24: a store with done = false leaves the ring (the five arrays, ptr and
\* size) as it was; a store with done = true that flushes an episode of L
\* steps moves ptr to (ptr + L) mod capacity and size to min(size + L,
\* capacity); after every store size is min(steps of all flushed episodes,
\* capacity).
C24_RingChangesOnlyAtFlush ==
    [][ret'.op = "store" =>
          LET L == Len(seg) + 1
              C == rb.max_size
          IN  /\ ~ret'.args[5] => rb' = rb
              /\ ret'.args[5] => /\ rb'.ptr = (rb.ptr + L) % C
                                 /\ rb'.size = Min(rb.size + L, C)
              /\ rb'.size = Min(Len(hist') - Len(seg'), C)]_vars

\* a step of the second episode is in flight, the first episode (longer
\* than the ring) was flushed and filled the ring
C24_Witness ==
    /\ ret.op = "store"
    /\ ~ret.args[5]
    /\ Len(seg) >= 1
    /\ Len(hist) - Len(seg) > rb.max_size
    /\ rb.size = rb.max_size
    /\ rb.max_size >= 2
    /\ rb.ptr # 0

----------------------------------------------------------------------------
(* td3.py: the networks and update(data, timer).  Each of ac.pi, ac.q1 and *)
(* ac.q2 is one parameter holding an integer; a target parameter is an     *)
(* exact rational <<numerator, denominator>> in lowest terms; polyak is a  *)
(* rational too.  What an optimizer step adds to a parameter is an input   *)
(* g (it stands for the minibatch and the learning rate).                  *)

ParamNames == {"pi", "q1", "q2"}

Abs(x) == IF x < 0 THEN -x ELSE x

RECURSIVE GCD(_, _)
GCD(a, b) == IF b = 0 THEN a ELSE GCD(b, a % b)

QNorm(q) == LET d == GCD(Abs(q[1]), q[2]) IN <<q[1] \div d, q[2] \div d>>

\* itertools.chain(a, b): an iterator, here the items it has yet to give
chain(a, b) == a \o b

\* list(it), or a for loop over it: every remaining item, once
list(it) == it

\* an iterator that was iterated to its end gives nothing more
drained(it) == <<>>

\* lines 136-145 and 198-199: ac, ac_targ = deepcopy(ac), the chain q_params,
\* and the optimizers' parameter lists; Adam(q_params) keeps list(q_params)
td3_networks(init) ==
    LET q_params == chain(<<"q1">>, <<"q2">>)
    IN  [ac |-> init,
         ac_targ |-> [x \in ParamNames |-> <<init[x], 1>>],
         requires_grad |-> [x \in ParamNames |-> TRUE],
         pi_optimizer |-> <<"pi">>,
         q_optimizer |-> list(q_params),
         q_params |-> drained(q_params),
         policy_step |-> FALSE,
         at_backward |-> [x \in ParamNames |-> TRUE]]

\* backward() and optimizer.step(): the parameters of the optimizer that
\* require a gradient move by g
optimizer_step(n, params, g) ==
    [n EXCEPT !.ac = [x \in ParamNames |->
                        IF (\E k \in DOMAIN params : params[k] = x) /\ n.requires_grad[x]
                        THEN n.ac[x] + g[x] ELSE n.ac[x]]]

\* lines 219-220 and 229-230: for p in q_params: p.requires_grad = flag
set_requires_grad(n, flag) ==
    [n EXCEPT !.requires_grad =
                 [x \in ParamNames |->
                    IF \E k \in DOMAIN list(n.q_params) : list(n.q_params)[k] = x
                    THEN flag ELSE n.requires_grad[x]],
              !.q_params = drained(n.q_params)]

\* line 240: p_targ.data.mul_(polyak)
mul_(p_targ, polyak) == QNorm(<<p_targ[1] * polyak[1], p_targ[2] * polyak[2]>>)

\* line 241: p_targ.data.add_((1 - polyak) * p.data)
add_(p_targ, polyak, p) ==
    QNorm(<<p_targ[1] * polyak[2] + (polyak[2] - polyak[1]) * p * p_targ[2],
            p_targ[2] * polyak[2]>>)

\* the averaging with a hard copy of the live parameter
polyak_update_hard_copy(n, polyak) ==
    [n EXCEPT !.ac_targ = [x \in ParamNames |-> <<n.ac[x], 1>>]]

\* lines 236-241: every parameter of ac with the same parameter of ac_targ
polyak_update(n, polyak) ==
    [n EXCEPT !.ac_targ = [x \in ParamNames |->
                              add_(mul_(n.ac_targ[x], polyak), polyak, n.ac[x])]]

\* lines 215-241, the branch taken when timer % policy_delay == 0
policy_and_target_update(n, g, polyak) ==
    LET frozen == set_requires_grad(n, FALSE)
        seen == [frozen EXCEPT !.policy_step = TRUE,
                               !.at_backward = frozen.requires_grad]
        stepped == optimizer_step(seen, seen.pi_optimizer, g)
        unfrozen == set_requires_grad(stepped, TRUE)
    IN  polyak_update(unfrozen, polyak)

\* update with the policy and the targets updated on every call
update_no_delay(n, timer, g, policy_delay, polyak) ==
    policy_and_target_update(optimizer_step(n, n.q_optimizer, g), g, polyak)

\* lines 204-241
update(n, timer, g, policy_delay, polyak) ==
    LET critic == optimizer_step([n EXCEPT !.policy_step = FALSE], n.q_optimizer, g)
    IN  IF timer % policy_delay = 0
        THEN policy_and_target_update(critic, g, polyak)
        ELSE critic

----------------------------------------------------------------------------
(* Specification SpecUpdate: update called with any timer and any          *)
(* optimizer moves on the networks as td3 sets them up.                    *)

\* The values of polyak tried: 0.5 and 0.9
Polyaks == {<<1, 2>>, <<9, 10>>}

\* The initial parameters
InitParams == {[pi |-> 4, q1 |-> -2, q2 |-> 8]}

\* The moves an optimizer step can make
Grads == {[pi |-> 1, q1 |-> -1, q2 |-> 2], [pi |-> -2, q1 |-> 3, q2 |-> -1]}

BufIdle ==
    /\ rb = None
    /\ plain = None
    /\ ib = None
    /\ heap = <<>>
    /\ hist = <<>>
    /\ written = {}
    /\ pending = FALSE
    /\ held = None
    /\ seg = <<>>

UpdateInit ==
    /\ BufIdle
    /\ ret = NoCall
    /\ ncalls = 0
    /\ \E policy_delay \in 1..MaxDelay, polyak \in Polyaks :
          cfg = [policy_delay |-> policy_delay, polyak |-> polyak]
    /\ \E init \in InitParams : net = td3_networks(init)
    /\ loop = None
    /\ disk = None
    /\ env = None
    /\ trace = None

UpdateCall ==
    /\ ncalls < MaxUpdates
    /\ \E timer \in 0..MaxTimer, g \in Grads :
        /\ net' = update(net, timer, g, cfg.policy_delay, cfg.polyak)
        /\ ret' = Call("update", <<timer, g>>, <<>>)
    /\ ncalls' = ncalls + 1
    /\ UNCHANGED <<bufVars, cfg, loop, disk, env, trace>>

UpdateNext == UpdateCall

SpecUpdate == UpdateInit /\ [][UpdateNext]_vars

----------------------------------------------------------------------------
(* Claims on update *)

\* polyak * old + (1 - polyak) * live, as a rational
PolyakOf(old, live, polyak) ==
    <<polyak[1] * old[1] + (polyak[2] - polyak[1]) * live * old[2],
      polyak[2] * old[2]>>

QEq(a, b) == a[1] * b[2] = b[1] * a[2]

\* C13: every update call moves both critics; the policy parameter and the
\* target parameters change only in a call whose timer is a multiple of
\* policy_delay, and a target parameter changes only to its polyak average
\* (no optimizer move g is ever added to it).
C13_DelayedPolicyUpdate ==
    [][ret'.op = "update" =>
          LET timer == ret'.args[1]
              g == ret'.args[2]
          IN  /\ net'.ac.q1 = net.ac.q1 + g.q1
              /\ net'.ac.q2 = net.ac.q2 + g.q2
              /\ timer % cfg.policy_delay # 0 =>
                    /\ net'.ac.pi = net.ac.pi
                    /\ net'.ac_targ = net.ac_targ
              /\ timer % cfg.policy_delay = 0 => net'.ac.pi = net.ac.pi + g.pi
              /\ \A x \in ParamNames :
                    net'.ac_targ[x] # net.ac_targ[x] =>
                       QEq(net'.ac_targ[x],
                           PolyakOf(net.ac_targ[x], net'.ac[x], cfg.polyak))]_vars

\* an update with timer 1 under policy_delay 2, after one that did update
\* the policy and the targets
C13_Witness ==
    /\ ret.op = "update"
    /\ cfg.policy_delay = 2
    /\ ret.args[1] = 1
    /\ ncalls >= 2
    /\ ~net.policy_step
    /\ net.ac_targ.pi # <<4, 1>>
    /\ net.ac.q1 # -2

\* C14: an update call that updates the policy leaves every target parameter
\* (of pi, q1 and q2) at polyak * old_target + (1 - polyak) * live, live
\* being the parameter of the same name after this call's optimizer steps.
C14_PolyakAverage ==
    [][(ret'.op = "update" /\ ret'.args[1] % cfg.policy_delay = 0) =>
          \A x \in ParamNames :
             QEq(net'.ac_targ[x],
                 PolyakOf(net.ac_targ[x], net'.ac[x], cfg.polyak))]_vars

\* the second averaging in a row: the old target is no copy of a live value
C14_Witness ==
    /\ ret.op = "update"
    /\ net.policy_step
    /\ ncalls >= 2
    /\ \A x \in ParamNames : net.ac_targ[x][2] > 2
    /\ \A x \in ParamNames : ~QEq(net.ac_targ[x], <<net.ac[x], 1>>)

\* C20 as claimed: in an update call that updates the policy, q1 and q2 do
\* not require gradients when the policy loss is back-propagated, and
\* require them again when the call returns.
C20_QFrozenDuringPolicyStep ==
    [][(ret'.op = "update" /\ ret'.args[1] % cfg.policy_delay = 0) =>
          /\ ~net'.at_backward.q1 /\ ~net'.at_backward.q2
          /\ net'.requires_grad.q1 /\ net'.requires_grad.q2]_vars

----------------------------------------------------------------------------
(* td3.py: get_action and get_action_from_perturbed_model.  Action         *)
(* components, the noise and act_limit are integers (a fixed unit).        *)

\* np.clip with the lower bound left out
clip_upper_only(a, lo, hi) == [i \in DOMAIN a |-> IF a[i] > hi THEN hi ELSE a[i]]

\* np.clip(a, lo, hi) = minimum(maximum(a, lo), hi), componentwise
clip(a, lo, hi) ==
    [i \in DOMAIN a |->
        LET low == IF a[i] < lo THEN lo ELSE a[i]
        IN  IF low > hi THEN hi ELSE low]

\* core.py, MLPActor.forward and MLPActorCritic.act: act_limit times a tanh
\* output, for each of the act_dim components; the values it can take
act_outputs(act_limit, act_dim) == [1..act_dim -> (-act_limit)..act_limit]

\* np.random.standard_normal(noise_dim): the draws it can give
standard_normal(act_dim) == [1..act_dim -> (-MaxNoise)..MaxNoise]

\* lines 243-247, given the policy's output and the normal draw
get_action(a, noise_scale, normal, act_limit) ==
    clip([i \in DOMAIN a |-> a[i] + noise_scale * normal[i]], -act_limit, act_limit)

\* lines 249-251, given the perturbed policy's output
get_action_from_perturbed_model(a, act_limit) == clip(a, -act_limit, act_limit)

\* The values of noise_scale tried (0 is what test_agent passes)
NoiseScales == {0, 1, 2}

\* The numbers of action components tried
ActDims == {1, 2}

\* The policy's output, noise_scale and the normal draw are fixed first
ActInit ==
    /\ BufIdle
    /\ ncalls = 0
    /\ \E act_limit \in 1..MaxActLimit, act_dim \in ActDims :
          /\ cfg = [act_limit |-> act_limit, act_dim |-> act_dim]
          /\ \E a \in act_outputs(act_limit, act_dim),
                noise_scale \in NoiseScales,
                normal \in standard_normal(act_dim) :
                ret = Call("input", <<a, noise_scale, normal>>, <<>>)
    /\ net = None
    /\ loop = None
    /\ disk = None
    /\ env = None
    /\ trace = None

GetAction ==
    /\ ret.op = "input"
    /\ ret' = Call("get_action", ret.args,
                   get_action(ret.args[1], ret.args[2], ret.args[3], cfg.act_limit))
    /\ ncalls' = ncalls + 1
    /\ UNCHANGED <<bufVars, trainVars>>

GetActionFromPerturbedModel ==
    /\ ret.op = "input"
    /\ ret' = Call("get_action_from_perturbed_model", ret.args,
                   get_action_from_perturbed_model(ret.args[1], cfg.act_limit))
    /\ ncalls' = ncalls + 1
    /\ UNCHANGED <<bufVars, trainVars>>

ActNext == GetAction \/ GetActionFromPerturbedModel

SpecAct == ActInit /\ [][ActNext]_vars

\* C19: every component of an action returned by get_action or by
\* get_action_from_perturbed_model is between -act_limit and act_limit, and
\* the action has act_dim components.
C19_ActionWithinLimit ==
    ret.op \in {"get_action", "get_action_from_perturbed_model"} =>
        /\ DOMAIN ret.val = 1..cfg.act_dim
        /\ \A i \in DOMAIN ret.val :
              -cfg.act_limit <= ret.val[i] /\ ret.val[i] <= cfg.act_limit

\* noise pushed one component below -act_limit and another above act_limit
C19_Witness ==
    /\ ret.op = "get_action"
    /\ cfg.act_dim = 2
    /\ ret.args[1][1] + ret.args[2] * ret.args[3][1] < -cfg.act_limit
    /\ ret.args[1][2] + ret.args[2] * ret.args[3][2] > cfg.act_limit
    /\ ret.val = <<-cfg.act_limit, cfg.act_limit>>

----------------------------------------------------------------------------
(* curriculum_env.py: CurriculumEnv.reset.  A path is the sequence of its  *)
(* characters; the disk is the set of paths that can be loaded; a loaded   *)
(* model is named by the path it was loaded from.                          *)

\* lines 14-20
curriculum ==
    [defense |-> 0, shooting |-> 0, defense_shooting |-> 2000,
     weak_opp |-> {}, self_play |-> 6000]

\* str(k) for 0 <= k < 100
str(k) ==
    LET digit(d) == <<"0", "1", "2", "3", "4", "5", "6", "7", "8", "9">>[d + 1]
    IN  IF k < 10 THEN <<digit(k)>> ELSE <<digit(k \div 10), digit(k % 10)>>

\* s[:-4]
drop_last4(s) == IF Len(s) > 4 THEN SubSeq(s, 1, Len(s) - 4) ELSE <<>>

pt == <<".", "p", "t">>

\* td3.py line 419: the path given to the environment ends in model0.pt
model0_path == <<"m", "o", "d", "e", "l">> \o str(0) \o pt

\* the file of the numbered snapshot k next to model0.pt
ModelFile(k) == <<"m", "o", "d", "e", "l">> \o str(k) \o pt

\* lines 11-26, then the resets before self-play (default arguments)
CurriculumEnv_init(self_play_path, num_saved_models, episode) ==
    [episode |-> episode,
     self_play_path |-> self_play_path,
     num_saved_models |-> num_saved_models,
     opponent_model |-> <<>>,
     opponent_act |-> "strong",
     stage |-> "sbP",
     mode |-> 0]

\* lines 43-48: the path of the drawn snapshot, torch.load in try, and in the
\* except branch the path of snapshot 1 and torch.load outside any try
load_opponent(self, which_model, files) ==
    LET requested == drop_last4(self.self_play_path) \o str(which_model) \o pt
        fallback == drop_last4(requested) \o str(1) \o pt
    IN  IF requested \in files
        THEN [ok |-> TRUE,
              self |-> [self EXCEPT !.self_play_path = requested,
                                    !.opponent_model = requested]]
        ELSE IF fallback \in files
        THEN [ok |-> TRUE,
              self |-> [self EXCEPT !.self_play_path = fallback,
                                    !.opponent_model = fallback]]
        ELSE [ok |-> FALSE,
              self |-> [self EXCEPT !.self_play_path = fallback]]

\* lines 54-68: the mode handed to HockeyEnv.reset and the stage suffix
mode_of(episode, mode) ==
    IF episode < curriculum.defense \/ mode = "2" THEN [suffix |-> "D", mode |-> 2]
    ELSE IF episode < curriculum.shooting \/ mode = "1" THEN [suffix |-> "S", mode |-> 1]
    ELSE IF episode < curriculum.defense_shooting /\ mode = "default"
         THEN [suffix |-> "DS", mode |-> IF episode % 2 = 0 THEN 1 ELSE 2]
    ELSE [suffix |-> "P", mode |-> 0]

\* "wb" + suffix and so on
stage_name(prefix, suffix) ==
    CASE prefix = "wb" /\ suffix = "D" -> "wbD"
      [] prefix = "wb" /\ suffix = "S" -> "wbS"
      [] prefix = "wb" /\ suffix = "DS" -> "wbDS"
      [] prefix = "wb" /\ suffix = "P" -> "wbP"
      [] prefix = "sb" /\ suffix = "D" -> "sbD"
      [] prefix = "sb" /\ suffix = "S" -> "sbS"
      [] prefix = "sb" /\ suffix = "DS" -> "sbDS"
      [] prefix = "sb" /\ suffix = "P" -> "sbP"
      [] prefix = "sp" /\ suffix = "D" -> "spD"
      [] prefix = "sp" /\ suffix = "S" -> "spS"
      [] prefix = "sp" /\ suffix = "DS" -> "spDS"
      [] prefix = "sp" /\ suffix = "P" -> "spP"

\* lines 29-70; which_model is the draw of random.randint (used in the
\* self-play branch only).  Gives ok and the environment afterwards.
CurriculumEnv_reset(self, opponent, mode, which_model, files) ==
    LET s1 == [self EXCEPT !.episode = @ + 1]
        m == mode_of(s1.episode, mode)
        finish(s, prefix) ==
            [ok |-> TRUE,
             self |-> [s EXCEPT !.stage = stage_name(prefix, m.suffix), !.mode = m.mode]]
    IN  IF s1.episode \in curriculum.weak_opp \/ opponent = "weak"
        THEN finish([s1 EXCEPT !.opponent_act = "weak"], "wb")
        ELSE IF s1.episode < curriculum.self_play \/ opponent = "strong"
        THEN finish([s1 EXCEPT !.opponent_act = "strong"], "sb")
        ELSE LET l == load_opponent(s1, which_model, files)
             IN  IF l.ok
                 THEN finish([l.self EXCEPT !.opponent_act = "opponent_model"], "sp")
                 ELSE l

\* line 42: what random.randint(1, self.num_saved_models) can draw
requestable_models(num_saved_models) == 1..num_saved_models

\* TRUE when reset(opponent=...) of this environment draws a snapshot
SelfPlaySelected(self, opponent) ==
    /\ ~(self.episode + 1 \in curriculum.weak_opp \/ opponent = "weak")
    /\ ~(self.episode + 1 < curriculum.self_play \/ opponent = "strong")

Opponents == {"default", "weak", "strong"}

Modes == {"default", "1", "2"}

ResetInit ==
    /\ BufIdle
    /\ ret = NoCall
    /\ ncalls = 0
    /\ cfg = None
    /\ net = None
    /\ loop = None
    /\ trace = None
    /\ disk \in SUBSET {ModelFile(k) : k \in 0..MaxSaved}
    /\ \E num_saved_models \in 1..MaxSaved :
          env = CurriculumEnv_init(model0_path, num_saved_models, curriculum.self_play - 2)

EnvReset ==
    /\ ncalls < MaxResets
    /\ ret = NoCall \/ ret.ok
    /\ \E opponent \in Opponents, mode \in Modes,
          which_model \in requestable_models(env.num_saved_models) :
         LET out == CurriculumEnv_reset(env, opponent, mode, which_model, disk)
             drawn == IF SelfPlaySelected(env, opponent) THEN which_model ELSE 0
         IN  /\ env' = out.self
             /\ ret' = IF out.ok
                       THEN Call("reset", <<opponent, mode, drawn>>, out.self.mode)
                       ELSE Raise("reset", <<opponent, mode, drawn>>, "FileNotFoundError")
    /\ ncalls' = ncalls + 1
    /\ UNCHANGED <<bufVars, cfg, net, loop, disk, trace>>

ResetNext == EnvReset

SpecReset == ResetInit /\ [][ResetNext]_vars

\* C18 as claimed: a reset that selects self-play and whose drawn snapshot
\* is missing completes, with the snapshot of slot 1 as the opponent.
C18_MissingSnapshotFallsBack ==
    [][(ret'.op = "reset" /\ ret'.args[3] > 0 /\ ModelFile(ret'.args[3]) \notin disk) =>
          /\ ret'.ok
          /\ env'.opponent_model = ModelFile(1)
          /\ env'.opponent_act = "opponent_model"]_vars

----------------------------------------------------------------------------
(* td3.py: the training loop (lines 289-368) with use_parameter_noise and  *)
(* decay_exploration off.  One pass of the loop body is cut at the calls   *)
(* whose outcome is drawn: the environment step, each sample_batch/update  *)
(* pair, and the evaluation at the end of an epoch.                        *)

\* the stored flag being the environment's flag, whatever ep_len is
stored_done_keep(d, ep_len, max_ep_len) == d

\* line 321: d = False if ep_len == max_ep_len else d
stored_done(d, ep_len, max_ep_len) == IF ep_len = max_ep_len THEN FALSE ELSE d

\* line 331: if d or (ep_len == max_ep_len)
end_of_trajectory(d, ep_len, max_ep_len) == d \/ ep_len = max_ep_len

\* line 337: if t >= update_after and t % update_every == 0
update_due(c, t) == t >= c.update_after /\ t % c.update_every = 0

\* line 348: if (t+1) % steps_per_epoch == 0
epoch_due(c, t) == (t + 1) % c.steps_per_epoch = 0

\* line 290
total_steps(c) == c.steps_per_epoch * c.epochs

\* line 300: for t in range(total_steps), after the body for l.t
next_t(c, l) ==
    IF l.t + 1 < total_steps(c)
    THEN [l EXCEPT !.pc = "step", !.t = l.t + 1]
    ELSE [l EXCEPT !.pc = "done"]

\* after the update handling of the body for l.t
after_update_handling(c, l) ==
    IF epoch_due(c, l.t) THEN [l EXCEPT !.pc = "epoch"] ELSE next_t(c, l)

\* lines 148-151: the experience buffer
make_replay_buffer(c) ==
    IF c.multistep_n > 1
    THEN MultiStepReplayBuffer_init(c.replay_size, c.multistep_n, c.gamma)
    ELSE [rb |-> ReplayBuffer_init(c.replay_size), ib |-> None, heap |-> <<>>]

\* line 324: replay_buffer.store(o, a, r, o2, d) on the buffer td3 made
replay_buffer_store(c, m, o, a, r, o2, d) ==
    IF c.multistep_n > 1
    THEN MultiStepReplayBuffer_store(m, o, a, r, o2, d)
    ELSE [m EXCEPT !.rb = ReplayBuffer_store(m.rb, o, a, r, o2, d)]

\* logger.save_state(state, itr): the snapshot numbered itr is replaced
save_state(files, itr, model) == [files EXCEPT ![itr] = model]

\* float('-inf') and the floats compared with it
minus_inf == [inf |-> TRUE, v |-> 0]

float(x) == [inf |-> FALSE, v |-> x]

\* a > b for a finite a
greater(a, b) == b.inf \/ a.v > b.v

\* lines 358-368, given what test_agent returned
end_of_epoch(c, l, files, model, test_ep_return) ==
    LET better == greater(float(test_ep_return), l.best_test_ep_return)
        best == IF better THEN float(test_ep_return) ELSE l.best_test_ep_return
        files1 == IF better THEN save_state(files, 0, model) ELSE files
        save_id == l.save_id + 1
    IN  [loop |-> [l EXCEPT !.best_test_ep_return = best, !.save_id = save_id],
         files |-> save_state(files1, save_id % c.save_k_latest, model)]

\* The hyperparameters tried; update_after >= batch_size and
\* replay_size >= batch_size in all of them
TrainConfigs ==
    {[steps_per_epoch |-> 3, epochs |-> epochs, replay_size |-> 3,
      gamma |-> <<1, 2>>, polyak |-> <<1, 2>>, batch_size |-> 2,
      start_steps |-> 3, update_after |-> 2, update_every |-> update_every,
      policy_delay |-> 2, max_ep_len |-> max_ep_len, multistep_n |-> multistep_n,
      save_k_latest |-> save_k_latest] :
        epochs \in 1..MaxEpochs, update_every \in {1, 2}, max_ep_len \in {2, 3},
        multistep_n \in {1, 2}, save_k_latest \in {1, 2}}

\* What test_agent can return
TestReturns == {1, 2}

\* The optimizer moves during training
TrainGrads == {[pi |-> 1, q1 |-> -1, q2 |-> 2]}

Buffer == [rb |-> rb, ib |-> ib, heap |-> heap]

TrainInit ==
    /\ \E c \in TrainConfigs :
        /\ cfg = c
        /\ rb = make_replay_buffer(c).rb
        /\ ib = make_replay_buffer(c).ib
        /\ heap = make_replay_buffer(c).heap
        /\ disk = [itr \in 0..c.save_k_latest |-> None]
    /\ \E init \in InitParams : net = td3_networks(init)
    /\ plain = None
    /\ hist = <<>>
    /\ written = {}
    /\ pending = FALSE
    /\ held = None
    /\ seg = <<>>
    /\ ret = NoCall
    /\ ncalls = 0
    /\ env = [clock |-> 1]
    /\ loop = [pc |-> "step", t |-> 0, j |-> 0, o |-> 1, ep_ret |-> 0, ep_len |-> 0,
               best_test_ep_return |-> minus_inf, save_id |-> 0]
    /\ trace = [t |-> -1, env_done |-> FALSE, ep_len |-> 0, reset |-> FALSE,
                updates |-> <<>>, samples |-> 0, tests |-> <<>>]

\* lines 305-333, and the test of line 337
TrainStep ==
    /\ loop.pc = "step"
    /\ \E env_done \in BOOLEAN :
        LET a == IF loop.t > cfg.start_steps THEN 200 + loop.t ELSE 100 + loop.t
            o2 == env.clock + 1
            r == 1
            ep_ret == loop.ep_ret + r
            ep_len == loop.ep_len + 1
            d == stored_done(env_done, ep_len, cfg.max_ep_len)
            m == replay_buffer_store(cfg, Buffer, loop.o, a, r, o2, d)
            over == end_of_trajectory(d, ep_len, cfg.max_ep_len)
            l == [loop EXCEPT !.o = IF over THEN o2 + 1 ELSE o2,
                              !.ep_ret = IF over THEN 0 ELSE ep_ret,
                              !.ep_len = IF over THEN 0 ELSE ep_len,
                              !.j = 0]
        IN  /\ rb' = m.rb
            /\ ib' = m.ib
            /\ heap' = m.heap
            /\ env' = [clock |-> IF over THEN o2 + 1 ELSE o2]
            /\ ret' = Call("store", <<loop.o, a, r, o2, d>>, <<>>)
            /\ loop' = IF update_due(cfg, loop.t)
                       THEN [l EXCEPT !.pc = "update"]
                       ELSE after_update_handling(cfg, l)
            /\ trace' = [trace EXCEPT !.t = loop.t, !.env_done = env_done,
                                      !.ep_len = ep_len, !.reset = over,
                                      !.updates = <<>>, !.samples = 0]
    /\ UNCHANGED <<plain, hist, written, pending, held, seg, ncalls, cfg, net, disk>>

\* lines 339-340 for one j, and the loop control of line 338
TrainUpdate ==
    /\ loop.pc = "update"
    /\ \E out \in ReplayBuffer_sample_batch(rb, cfg.batch_size), g \in TrainGrads :
        IF out.ok
        THEN /\ net' = update(net, loop.j, g, cfg.policy_delay, cfg.polyak)
             /\ ret' = Call("update", <<loop.j, g>>, <<>>)
             /\ trace' = [trace EXCEPT !.updates = Append(@, loop.j), !.samples = @ + 1]
             /\ loop' = IF loop.j + 1 < cfg.update_every
                        THEN [loop EXCEPT !.j = loop.j + 1]
                        ELSE after_update_handling(cfg, loop)
        ELSE /\ ret' = out
             /\ loop' = [loop EXCEPT !.pc = "raised"]
             /\ UNCHANGED <<net, trace>>
    /\ UNCHANGED <<bufVars, ncalls, cfg, disk, env>>

\* lines 348-368
TrainEpoch ==
    /\ loop.pc = "epoch"
    /\ \E test_ep_return \in TestReturns :
        LET epoch == (loop.t + 1) \div cfg.steps_per_epoch
            model == [epoch |-> epoch, ac |-> net.ac]
            e == end_of_epoch(cfg, loop, disk, model, test_ep_return)
        IN  /\ disk' = e.files
            /\ loop' = next_t(cfg, e.loop)
            /\ ret' = Call("save_state", <<e.loop.save_id % cfg.save_k_latest>>, <<>>)
            /\ trace' = [trace EXCEPT !.tests = Append(@, test_ep_return)]
    /\ UNCHANGED <<bufVars, ncalls, cfg, net, env>>

TrainNext == TrainStep \/ TrainUpdate \/ TrainEpoch

SpecTrain == TrainInit /\ [][TrainNext]_vars

----------------------------------------------------------------------------
(* Claims on the training loop *)

\* C12 as claimed: update calls are made in the pass for step t exactly
\* when t >= update_after and t % update_every = 0, and then they are
\* update_every calls with timers 0, 1, ..., update_every - 1, each after
\* its own sample_batch call; a pass for any other t makes none.
C12_UpdateBursts ==
    LET due == trace.t >= cfg.update_after /\ trace.t % cfg.update_every = 0
        timers(k) == [i \in 1..k |-> i - 1]
    IN  /\ loop.pc = "update" =>
              due /\ trace.updates = timers(loop.j) /\ trace.samples = loop.j
        /\ (trace.t >= 0 /\ loop.pc \in {"step", "epoch", "done", "raised"}) =>
              /\ trace.updates = IF due THEN timers(cfg.update_every) ELSE <<>>
              /\ trace.samples = Len(trace.updates)

\* C15: the loop passes done = false to store when the step brought ep_len
\* to max_ep_len and the environment's flag otherwise (the plain buffer
\* then holds that flag); it resets the environment and sets ep_ret and
\* ep_len to 0 exactly when the environment reported done or ep_len reached
\* max_ep_len, and otherwise goes on from next_obs; ep_len stays below
\* max_ep_len between steps.
C15_TimeLimitNotTerminal ==
    [][ret'.op = "store" =>
          LET ep_len == loop.ep_len + 1
              env_done == trace'.env_done
              ends == env_done \/ ep_len = cfg.max_ep_len
          IN  /\ ret'.args[5] = (IF ep_len = cfg.max_ep_len THEN FALSE ELSE env_done)
              /\ cfg.multistep_n = 1 => rb'.done_buf[rb.ptr] = Float(ret'.args[5])
              /\ ends => /\ loop'.ep_len = 0
                         /\ loop'.ep_ret = 0
                         /\ loop'.o # ret'.args[4]
                         /\ env'.clock = loop'.o
              /\ ~ends => /\ loop'.ep_len = ep_len
                          /\ loop'.ep_ret = loop.ep_ret + ret'.args[3]
                          /\ loop'.o = ret'.args[4]
              /\ ep_len <= cfg.max_ep_len
              /\ loop'.ep_len < cfg.max_ep_len]_vars

\* the environment reported done on the very step that reached max_ep_len:
\* stored as not done, and the episode was reset
C15_Witness ==
    /\ ret.op = "store"
    /\ trace.env_done
    /\ trace.ep_len = cfg.max_ep_len
    /\ ret.args[5] = FALSE
    /\ trace.reset
    /\ loop.ep_len = 0
    /\ loop.t > 2

\* C16 as claimed: whenever the loop is about to call sample_batch for an
\* update, the replay buffer holds at least batch_size transitions.
C16_BufferHoldsBatch == loop.pc = "update" => rb.size >= cfg.batch_size

\* the epoch with the highest evaluation return so far (the first of them)
BestEpoch(tests) ==
    CHOOSE e \in 1..Len(tests) :
        /\ \A k \in 1..Len(tests) : tests[k] <= tests[e]
        /\ \A k \in 1..(e - 1) : tests[k] < tests[e]

\* C17 as claimed: after every epoch the rotating slot save_id %
\* save_k_latest holds the latest model and the best slot holds the model
\* of the epoch with the highest evaluation return so far.
C17_BestSlotKeepsBest ==
    trace.tests # <<>> =>
        /\ disk[loop.save_id % cfg.save_k_latest].epoch = Len(trace.tests)
        /\ disk[0].epoch = BestEpoch(trace.tests)

\* C21 as claimed: with the multi-step buffer, whenever the environment
\* has just been reset (ep_len = 0 after at least one store) the segment of
\* the accumulator has been flushed, so it holds no step of the episode
\* that ended.
C21_SegmentWithinEpisode ==
    (cfg.multistep_n > 1 /\ loop.ep_len = 0 /\ ib.has_reset) => ib.full

\* C23 as claimed: with num_saved_models = save_k_latest (td3.py line 426),
\* once training has run at least save_k_latest epochs every snapshot
\* number that CurriculumEnv.reset can draw has been written by the saves
\* of the training loop.
C23_RequestableSlotsGetSaved ==
    (loop.pc = "done" /\ cfg.epochs >= cfg.save_k_latest) =>
        \A which_model \in requestable_models(cfg.save_k_latest) :
            disk[which_model] # None

=============================================================================
